---- MODULE Spec2Model ----
(***************************************************************************)
(* Column-based steganography of tv_effect_crypt.py: the lightening        *)
(* transform, the encoder, the decoder and the command-line entry point,   *)
(* over a file system of three artifacts <stem>.png, <stem>_lightened.png  *)
(* and <stem>_steg.png.                                                    *)
(***************************************************************************)
EXTENDS Integers, Sequences, FiniteSets, TLC

\* ------------------------------------------------------------------ bounds
MaxW == 5
MaxH == 4
MaxLen == 2
MaxStep == 2
MaxCliW == 2
MaxCliH == 2

\* --------------------------------------------------------------- constants
ChannelMax == 255
ByteWidth == 8
Black == <<0, 0, 0>>

Min2(a, b) == IF a < b THEN a ELSE b

\* ------------------------------------------------------------------ images
\* A file is absent or holds a w x h grid of RGB triples (after convert("RGB")).
\* The grid is stored row by row: px[y * w + x + 1] is the pixel the accessor
\* returns for pixels[x, y].
NoFile == [exists |-> FALSE, w |-> 0, h |-> 0, px |-> <<>>]

At(w, x, y) == y * w + x + 1

Pixel(img, x, y) == img.px[At(img.w, x, y)]

Palette == << <<0, 0, 0>>, <<255, 255, 255>>, <<0, 255, 254>>, <<1, 0, 0>>, <<0, 0, 7>> >>

CarrierImage(w, h) ==
    [exists |-> TRUE, w |-> w, h |-> h,
     px |-> [k \in 1 .. w * h |->
                Palette[((((k - 1) % w) + 2 * ((k - 1) \div w)) % Len(Palette)) + 1]]]

Images == {CarrierImage(w, h) : w \in 1 .. MaxW, h \in 1 .. MaxH}

\* ------------------------------------------------------------------- texts
\* ASCII payloads: the windows of length 0 .. MaxLen of a cycle of letters
\* ("A", DEL, NUL, "Z"), starting at its first or its second letter.
Letters == <<65, 127, 0, 90>>

Window(start, n) == [i \in 1 .. n |-> Letters[((start + i - 2) % Len(Letters)) + 1]]

Texts == {Window(start, n) : start \in {1, 2}, n \in 0 .. MaxLen}

\* --step is any integer; 0 makes range() raise ValueError, 1 .. MaxStep are
\* the strides that sample.
Steps == 0 .. MaxStep

\* ------------------------------------------------------- lighten_image_min
\* Faulty variants of the clamp: an increment that wraps at 256, and one that
\* does not saturate.
ClampWrap(c) == (c + 1) % (ChannelMax + 1)

ClampOverflow(c) == c + 1

\* min(c + 1, 255)

Clamp(c) == Min2(c + 1, ChannelMax)

LightenPixel(p) == <<Clamp(p[1]), Clamp(p[2]), Clamp(p[3])>>

LightenGrid(img) ==
    [img EXCEPT !.px = [k \in 1 .. img.w * img.h |-> LightenPixel(img.px[k])]]

lighten_image_min(files) ==
    IF ~files.src.exists
    THEN [outcome |-> "FileNotFoundError", fs |-> files, ret |-> <<>>]
    ELSE [outcome |-> "ok",
          fs |-> [files EXCEPT !.lightened = LightenGrid(files.src)],
          ret |-> <<>>]

\* ------------------------------------------------------- text_to_bits_flat
RECURSIVE BinDigits(_)
BinDigits(n) == IF n < 2 THEN <<n>> ELSE Append(BinDigits(n \div 2), n % 2)

\* Faulty variant: the eight bits least significant first.
FormatLsbFirst(n) == [i \in 1 .. ByteWidth |-> (n \div (2 ^ (i - 1))) % 2]

\* format(n, "08b"): the binary digits, zero-padded on the left to width 8.
Format08b(n) ==
    LET d == BinDigits(n)
    IN  IF Len(d) >= ByteWidth THEN d
        ELSE [i \in 1 .. (ByteWidth - Len(d)) |-> 0] \o d

RECURSIVE text_to_bits_flat(_)
text_to_bits_flat(text) ==
    IF text = <<>> THEN <<>>
    ELSE Format08b(Head(text)) \o text_to_bits_flat(Tail(text))

\* ---------------------------------------------------------- sampling walks
\* range(start, stop, step) for step > 0.
RECURSIVE PyRange(_, _, _)
PyRange(start, stop, step) ==
    IF start >= stop THEN <<>>
    ELSE <<start>> \o PyRange(start + step, stop, step)

\* for x in cols: for y in rows: visit (x, y)
Scan(cols, rows) ==
    [k \in 1 .. Len(cols) * Len(rows) |->
        <<cols[((k - 1) \div Len(rows)) + 1], rows[((k - 1) % Len(rows)) + 1]>>]

\* Faulty variant: the walk starts at column 0.
EmbedVisitsFromZero(w, h, column_step) ==
    Scan(PyRange(0, w, column_step), PyRange(0, h, 1))

\* The encoder's walk: for x in range(1, w, column_step): for y in range(h).
EmbedVisits(w, h, column_step) ==
    Scan(PyRange(1, w, column_step), PyRange(0, h, 1))

\* Faulty variant: the loops nested the other way round (rows outside).
ExtractVisitsRowMajor(w, h, column_step) ==
    LET cols == PyRange(1, w, column_step)
        rows == PyRange(0, h, 1)
    IN  [k \in 1 .. Len(cols) * Len(rows) |->
            <<cols[((k - 1) % Len(cols)) + 1], rows[((k - 1) \div Len(cols)) + 1]>>]

\* The decoder's walk: for x in range(1, w, column_step): for y in range(h).
ExtractVisits(w, h, column_step) ==
    Scan(PyRange(1, w, column_step), PyRange(0, h, 1))

\* ---------------------------------------------- embed_text_bits_into_image
\* Faulty variant: the walk stops when the payload is exhausted, leaving the
\* remaining sampled pixels as they were.
RECURSIVE EmbedLoopNoFill(_, _, _, _, _, _)
EmbedLoopNoFill(px, w, visits, bits, black_bit_value, idx) ==
    IF idx >= Len(visits) \/ idx >= Len(bits) THEN px
    ELSE LET c == At(w, visits[idx + 1][1], visits[idx + 1][2])
             painted ==
                 IF bits[idx + 1] = black_bit_value
                 THEN [px EXCEPT ![c] = Black]
                 ELSE px
         IN  EmbedLoopNoFill(painted, w, visits, bits, black_bit_value, idx + 1)

\* The nested loops of the encoder from cursor idx on: one sampled pixel per
\* step, painted black when the payload is exhausted or its bit is the polarity.
RECURSIVE EmbedLoop(_, _, _, _, _, _)
EmbedLoop(px, w, visits, bits, black_bit_value, idx) ==
    IF idx >= Len(visits) THEN px
    ELSE LET c == At(w, visits[idx + 1][1], visits[idx + 1][2])
             painted ==
                 IF idx >= Len(bits) THEN [px EXCEPT ![c] = Black]
                 ELSE IF bits[idx + 1] = black_bit_value
                      THEN [px EXCEPT ![c] = Black]
                      ELSE px
         IN  EmbedLoop(painted, w, visits, bits, black_bit_value, idx + 1)

EmbedGrid(img, text, black_bit_value, column_step) ==
    [img EXCEPT !.px = EmbedLoop(img.px, img.w, EmbedVisits(img.w, img.h, column_step),
                                 text_to_bits_flat(text), black_bit_value, 0)]

embed_text_bits_into_image(files, text, black_bit_value, column_step) ==
    IF ~files.lightened.exists
    THEN [outcome |-> "FileNotFoundError", fs |-> files, ret |-> <<>>]
    ELSE IF column_step = 0
    THEN [outcome |-> "ValueError", fs |-> files, ret |-> <<>>]
    ELSE [outcome |-> "ok",
          fs |-> [files EXCEPT !.steg = EmbedGrid(files.lightened, text,
                                                  black_bit_value, column_step)],
          ret |-> <<>>]

\* ------------------------------------------------------------ bits_to_text
\* int(s, 2)
RECURSIVE ParseBin(_)
ParseBin(b) ==
    IF b = <<>> THEN 0
    ELSE 2 * ParseBin(SubSeq(b, 1, Len(b) - 1)) + b[Len(b)]

\* Faulty variant: a trailing group of fewer than 8 bits is decoded too.
RECURSIVE BytesFromKeepPartial(_, _)
BytesFromKeepPartial(bits_flat, i) ==
    IF i >= Len(bits_flat) THEN <<>>
    ELSE LET byte == SubSeq(bits_flat, i + 1, Min2(i + ByteWidth, Len(bits_flat)))
         IN  <<ParseBin(byte)>> \o BytesFromKeepPartial(bits_flat, i + ByteWidth)

\* for i in range(0, len(bits_flat), 8), from offset i on.
RECURSIVE BytesFrom(_, _)
BytesFrom(bits_flat, i) ==
    IF i >= Len(bits_flat) THEN <<>>
    ELSE LET byte == SubSeq(bits_flat, i + 1, Min2(i + ByteWidth, Len(bits_flat)))
         IN  IF Len(byte) < ByteWidth THEN <<>>
             ELSE <<ParseBin(byte)>> \o BytesFrom(bits_flat, i + ByteWidth)

bits_to_text(bits_flat) == BytesFrom(bits_flat, 0)

\* ------------------------------------------------- extract_text_from_image
\* Faulty variants: a non-black pixel always read as 1, and the two bit values
\* exchanged.
ExtractBitsFixedWhite(img, black_bit_value, column_step) ==
    LET visits == ExtractVisits(img.w, img.h, column_step)
    IN  [k \in 1 .. Len(visits) |->
            IF Pixel(img, visits[k][1], visits[k][2]) = Black THEN black_bit_value
            ELSE 1]

ExtractBitsSwapped(img, black_bit_value, column_step) ==
    LET visits == ExtractVisits(img.w, img.h, column_step)
    IN  [k \in 1 .. Len(visits) |->
            IF Pixel(img, visits[k][1], visits[k][2]) = Black THEN 1 - black_bit_value
            ELSE black_bit_value]

ExtractBits(img, black_bit_value, column_step) ==
    LET visits == ExtractVisits(img.w, img.h, column_step)
    IN  [k \in 1 .. Len(visits) |->
            IF Pixel(img, visits[k][1], visits[k][2]) = Black THEN black_bit_value
            ELSE 1 - black_bit_value]

extract_text_from_image(files, black_bit_value, column_step) ==
    IF ~files.steg.exists
    THEN [outcome |-> "FileNotFoundError", fs |-> files, ret |-> <<>>]
    ELSE IF column_step = 0
    THEN [outcome |-> "ValueError", fs |-> files, ret |-> <<>>]
    ELSE [outcome |-> "ok", fs |-> files,
          ret |-> bits_to_text(ExtractBits(files.steg, black_bit_value, column_step))]

\* -------------------------------------------------------------------- main
ExitOk == 0
ExitNoSource == 1
ExitNotFound == 2
ExitUnexpected == 3

\* Faulty variant: every exception reported alike.
HandlerExitSame(outcome) == IF outcome = "ok" THEN ExitOk ELSE ExitUnexpected

\* The except clauses of main: FileNotFoundError first, then Exception.
HandlerExit(outcome) ==
    IF outcome = "ok" THEN ExitOk
    ELSE IF outcome = "FileNotFoundError" THEN ExitNotFound
    ELSE ExitUnexpected

\* sys.exit(1) raises SystemExit, which neither except clause catches. The
\* temporary lightened file is removed after a successful embedding only.
main(files, mode, text, black_bit, step) ==
    IF mode = "input"
    THEN IF ~files.src.exists
         THEN [exit |-> ExitNoSource, fs |-> files, printed |-> <<>>]
         ELSE LET lit == lighten_image_min(files)
              IN  IF lit.outcome # "ok"
                  THEN [exit |-> HandlerExit(lit.outcome), fs |-> lit.fs, printed |-> <<>>]
                  ELSE LET emb == embed_text_bits_into_image(lit.fs, text, black_bit, step)
                       IN  IF emb.outcome # "ok"
                           THEN [exit |-> HandlerExit(emb.outcome), fs |-> emb.fs,
                                 printed |-> <<>>]
                           ELSE [exit |-> ExitOk,
                                 fs |-> [emb.fs EXCEPT !.lightened = NoFile],
                                 printed |-> <<>>]
    ELSE LET ext == extract_text_from_image(files, black_bit, step)
         IN  [exit |-> HandlerExit(ext.outcome), fs |-> ext.fs, printed |-> ext.ret]

\* ------------------------------------------------------------------- state
VARIABLES fs, prov, last

vars == <<fs, prov, last>>

\* prov: how the current <stem>_steg.png was produced (text, polarity, stride and
\* the lightened carrier the encoder read); valid = FALSE for a file that was
\* not written by the encoder.
NoProv == [valid |-> FALSE, text |-> <<>>, bit |-> 0, step |-> 0, carrier |-> NoFile]

NoFiles == [src |-> NoFile, lightened |-> NoFile, steg |-> NoFile]

\* last: the most recent call, its arguments and what it gave back; had = which
\* artifacts existed when it started, wrote = whether it changed any artifact.
Present(files) ==
    [src |-> files.src.exists, lightened |-> files.lightened.exists,
     steg |-> files.steg.exists]

NoCall == [op |-> "none", bit |-> 0, step |-> 0, outcome |-> "ok",
           ret |-> <<>>, exit |-> 0, had |-> Present(NoFiles), wrote |-> FALSE]

\* Before any call: at most a source image, or a stego image received from
\* somewhere else, is on disk.
InitWith(images) ==
    /\ \E img \in images : \E which \in {"src", "steg", "none"} :
          fs = [src |-> IF which = "src" THEN img ELSE NoFile,
                lightened |-> NoFile,
                steg |-> IF which = "steg" THEN img ELSE NoFile]
    /\ prov = NoProv
    /\ last = NoCall

Init == InitWith(Images)

CliImages == {CarrierImage(w, h) : w \in 1 .. MaxCliW, h \in 1 .. MaxCliH}

CliInit == InitWith(CliImages)

Call(op, bit, step, outcome, ret, exit, after) ==
    [op |-> op, bit |-> bit, step |-> step, outcome |-> outcome,
     ret |-> ret, exit |-> exit, had |-> Present(fs), wrote |-> after # fs]

Written(text, bit, step, carrier) ==
    [valid |-> TRUE, text |-> text, bit |-> bit, step |-> step, carrier |-> carrier]

\* A library call of lighten_image_min(stem).
Lighten ==
    \E r \in {lighten_image_min(fs)} :
        /\ fs' = r.fs
        /\ last' = Call("lighten", 0, 0, r.outcome, r.ret, 0, r.fs)
        /\ UNCHANGED prov

\* A library call of embed_text_bits_into_image(text, stem, bit, step).
Embed(text, bit, step) ==
    \E r \in {embed_text_bits_into_image(fs, text, bit, step)} :
        /\ fs' = r.fs
        /\ last' = Call("embed", bit, step, r.outcome, r.ret, 0, r.fs)
        /\ prov' = IF r.outcome = "ok" THEN Written(text, bit, step, fs.lightened)
                   ELSE prov

\* A library call of extract_text_from_image(stem, bit, step).
Extract(bit, step) ==
    \E r \in {extract_text_from_image(fs, bit, step)} :
        /\ fs' = r.fs
        /\ last' = Call("extract", bit, step, r.outcome, r.ret, 0, r.fs)
        /\ UNCHANGED prov

\* python tv_effect_crypt.py --mode input --black-bit bit --step step, with
\* text typed at the prompt.
MainInput(text, bit, step) ==
    \E r \in {main(fs, "input", text, bit, step)} :
        /\ fs' = r.fs
        /\ last' = Call("main_input", bit, step,
                        IF r.exit = ExitOk THEN "ok" ELSE "exit", r.printed, r.exit, r.fs)
        /\ prov' = IF r.exit = ExitOk
                   THEN Written(text, bit, step, LightenGrid(fs.src))
                   ELSE prov

\* python tv_effect_crypt.py --mode output --black-bit bit --step step
MainOutput(bit, step) ==
    \E r \in {main(fs, "output", <<>>, bit, step)} :
        /\ fs' = r.fs
        /\ last' = Call("main_output", bit, step,
                        IF r.exit = ExitOk THEN "ok" ELSE "exit", r.printed, r.exit, r.fs)
        /\ UNCHANGED prov

\* Library use: the three functions called directly.
Next ==
    \/ Lighten
    \/ \E text \in Texts, bit \in {0, 1}, step \in Steps : Embed(text, bit, step)
    \/ \E bit \in {0, 1}, step \in Steps : Extract(bit, step)

Spec == Init /\ [][Next]_vars

\* Library use together with runs of the command-line entry point.
CliNext ==
    \/ Lighten
    \/ \E text \in Texts, bit \in {0, 1}, step \in Steps : Embed(text, bit, step)
    \/ \E bit \in {0, 1}, step \in Steps : Extract(bit, step)
    \/ \E text \in Texts, bit \in {0, 1}, step \in Steps : MainInput(text, bit, step)
    \/ \E bit \in {0, 1}, step \in Steps : MainOutput(bit, step)

CliSpec == CliInit /\ [][CliNext]_vars

\* ------------------------------------------------------------- properties
\* The closed forms the statements below are written with.
SampledColumns(w, S) == {x \in 1 .. w - 1 : (x - 1) % S = 0}

Capacity(w, h, S) == h * Cardinality(SampledColumns(w, S))

\* The k-th pixel (k = 1, 2, ...) of the sampling pattern for stride S, height h.
KthSampled(k, h, S) == <<1 + ((k - 1) \div h) * S, (k - 1) % h>>

\* Bit k (k = 1, 2, ...) of the payload, most significant bit of each character first.
BitOf(T, k) == (T[((k - 1) \div 8) + 1] \div (2 ^ (7 - ((k - 1) % 8)))) % 2

PadCode(p) == IF p = 0 THEN 0 ELSE 255

Padding(n, p) == [i \in 1 .. n |-> PadCode(p)]

StegCapacity == Capacity(fs.steg.w, fs.steg.h, prov.step)

StegPixel(k) ==
    Pixel(fs.steg, KthSampled(k, fs.steg.h, prov.step)[1],
                   KthSampled(k, fs.steg.h, prov.step)[2])

Extracted == last.op = "extract" /\ last.outcome = "ok"

\* The decoder has just read the encoder's output with the encoder's stride.
SameStride == Extracted /\ prov.valid /\ last.step = prov.step

\* ... and with the encoder's polarity as well.
SameKey == SameStride /\ last.bit = prov.bit

\* C1 as stated: whenever the payload fits (8*|T| <= capacity), extracting with
\* the polarity and stride of the embedding returns exactly T.
C1_RoundTrip ==
    (SameKey /\ 8 * Len(prov.text) <= StegCapacity) => last.ret = prov.text

\* C1 amended: whenever the payload fits, the extracted text begins with T, and
\* it is exactly T when fewer than 8 sampled pixels are left after the payload.
C1_RoundTripAmended ==
    (SameKey /\ 8 * Len(prov.text) <= StegCapacity) =>
        /\ Len(last.ret) >= Len(prov.text)
        /\ \A i \in 1 .. Len(prov.text) : last.ret[i] = prov.text[i]
        /\ (StegCapacity - 8 * Len(prov.text) < 8 => last.ret = prov.text)

C1_Witness ==
    /\ SameKey
    /\ prov.text # <<>>
    /\ 8 * Len(prov.text) <= StegCapacity
    /\ StegCapacity - 8 * Len(prov.text) < 8
    /\ last.ret = prov.text

\* C2: capacity truncation. When the payload has more bits than the capacity C,
\* embedding succeeds, every sampled pixel carries the payload bit of its rank
\* (none of the excess bits is written anywhere), and extracting with the same
\* polarity and stride returns exactly the first floor(C/8) characters of T.
C2_CapacityTruncation ==
    (prov.valid /\ 8 * Len(prov.text) > StegCapacity) =>
        /\ \A k \in 1 .. StegCapacity :
              (StegPixel(k) = Black) <=> (BitOf(prov.text, k) = prov.bit)
        /\ (last.op = "extract" /\ last.bit = prov.bit /\ last.step = prov.step) =>
              /\ last.outcome = "ok"
              /\ last.ret = SubSeq(prov.text, 1, StegCapacity \div 8)

C2_Witness ==
    /\ SameKey
    /\ 8 * Len(prov.text) > StegCapacity
    /\ StegCapacity % 8 # 0
    /\ last.ret # <<>>
    /\ last.ret = SubSeq(prov.text, 1, StegCapacity \div 8)

\* C3 as stated: embedding the empty string paints every sampled pixel pure
\* black, and extracting with the same polarity and stride returns the empty
\* string.
C3_EmptyPayload ==
    (prov.valid /\ prov.text = <<>>) =>
        /\ \A k \in 1 .. StegCapacity : StegPixel(k) = Black
        /\ SameKey => last.ret = <<>>

\* C3 amended: embedding the empty string paints every sampled pixel pure
\* black, and extracting with the same polarity and stride returns floor(C/8)
\* characters, each of code 0 for polarity 0 and of code 255 for polarity 1
\* (the empty string exactly when C < 8).
C3_EmptyPayloadAmended ==
    (prov.valid /\ prov.text = <<>>) =>
        /\ \A k \in 1 .. StegCapacity : StegPixel(k) = Black
        /\ SameKey => last.ret = Padding(StegCapacity \div 8, prov.bit)

C3_Witness ==
    /\ SameKey
    /\ prov.text = <<>>
    /\ StegCapacity >= 8
    /\ \A k \in 1 .. StegCapacity : StegPixel(k) = Black
    /\ Len(last.ret) = StegCapacity \div 8

\* The text the decoder returns for the current stego image with the
\* encoder's own polarity.
DecodedWithEncoderPolarity ==
    bits_to_text(ExtractBits(fs.steg, prov.bit, prov.step))

\* C4: polarity mismatch. Extracting a nonempty embedded text with the opposite
\* polarity and the same stride raises no error, reads at every sampled pixel
\* the complement of the bit read with the encoder's polarity, returns the
\* bytewise complement of the text decoded with the encoder's polarity, and
\* never returns T.
C4_PolarityMismatch ==
    (last.op = "extract" /\ prov.valid /\ fs.steg.exists /\ last.step = prov.step
        /\ last.step >= 1 /\ last.bit = 1 - prov.bit /\ prov.text # <<>>) =>
        /\ last.outcome = "ok"
        /\ \A k \in 1 .. StegCapacity :
              ExtractBits(fs.steg, last.bit, last.step)[k]
                  = 1 - ExtractBits(fs.steg, prov.bit, prov.step)[k]
        /\ Len(last.ret) = Len(DecodedWithEncoderPolarity)
        /\ \A i \in 1 .. Len(last.ret) :
              last.ret[i] = 255 - DecodedWithEncoderPolarity[i]
        /\ last.ret # prov.text

C4_Witness ==
    /\ SameStride
    /\ last.bit = 1 - prov.bit
    /\ prov.text # <<>>
    /\ StegCapacity >= 8 * Len(prov.text)
    /\ last.ret # <<>>
    /\ last.ret[1] = 255 - prov.text[1]

\* C5: black-pixel invariant. No pixel of a lightened image is pure black,
\* whatever the source held; and in the encoder's output a sampled pixel is
\* pure black only if the encoder painted it (its payload bit equals the
\* polarity, or the payload was exhausted).
C5_BlackPixelInvariant ==
    /\ fs.lightened.exists =>
          \A k \in 1 .. Len(fs.lightened.px) : fs.lightened.px[k] # Black
    /\ prov.valid =>
          \A k \in 1 .. StegCapacity :
              StegPixel(k) = Black =>
                  \/ k > 8 * Len(prov.text)
                  \/ BitOf(prov.text, k) = prov.bit

C5_Witness ==
    /\ last.op = "lighten"
    /\ last.outcome = "ok"
    /\ \E k \in 1 .. Len(fs.src.px) : fs.src.px[k] = Black
    /\ \A k \in 1 .. Len(fs.lightened.px) : fs.lightened.px[k] # Black

\* C6: lightening is a saturating increment. The lightened image has the
\* dimensions of the source, and every channel c of every pixel becomes c + 1
\* below 255 and stays 255 at 255 (so 0 becomes 1 and nothing wraps to 0).
C6_SaturatingIncrement ==
    (last.op = "lighten" /\ last.outcome = "ok") =>
        /\ fs.lightened.exists
        /\ fs.lightened.w = fs.src.w
        /\ fs.lightened.h = fs.src.h
        /\ Len(fs.lightened.px) = Len(fs.src.px)
        /\ \A k \in 1 .. Len(fs.src.px) : \A ch \in 1 .. 3 :
              /\ fs.src.px[k][ch] < 255 => fs.lightened.px[k][ch] = fs.src.px[k][ch] + 1
              /\ fs.src.px[k][ch] = 255 => fs.lightened.px[k][ch] = 255
              /\ fs.src.px[k][ch] = 0 => fs.lightened.px[k][ch] = 1

C6_Witness ==
    /\ last.op = "lighten"
    /\ last.outcome = "ok"
    /\ \E k \in 1 .. Len(fs.src.px) : \E ch \in 1 .. 3 :
          fs.src.px[k][ch] = 255 /\ fs.lightened.px[k][ch] = 255
    /\ \E k \in 1 .. Len(fs.src.px) : \E ch \in 1 .. 3 :
          fs.src.px[k][ch] = 0 /\ fs.lightened.px[k][ch] = 1

\* C7: encoder frame guarantee. The encoder's output has the dimensions of the
\* lightened image it read; every pixel outside the sampling pattern (column 0
\* and every column x with (x - 1) mod S # 0) is unchanged; every sampled pixel
\* is unchanged or exactly (0, 0, 0).
C7_EncoderFrame ==
    prov.valid =>
        /\ fs.steg.exists
        /\ fs.steg.w = prov.carrier.w
        /\ fs.steg.h = prov.carrier.h
        /\ Len(fs.steg.px) = Len(prov.carrier.px)
        /\ \A x \in 0 .. fs.steg.w - 1 : \A y \in 0 .. fs.steg.h - 1 :
              IF x = 0 \/ (x - 1) % prov.step # 0
              THEN Pixel(fs.steg, x, y) = Pixel(prov.carrier, x, y)
              ELSE Pixel(fs.steg, x, y) \in {Pixel(prov.carrier, x, y), Black}

C7_Witness ==
    /\ last.op = "embed"
    /\ last.outcome = "ok"
    /\ prov.step = 2
    /\ fs.steg.w >= 4
    /\ \E k \in 1 .. StegCapacity : StegPixel(k) = Black
    /\ \E k \in 1 .. StegCapacity : StegPixel(k) # Black
    /\ \A y \in 0 .. fs.steg.h - 1 :
          Pixel(fs.steg, 2, y) = Pixel(prov.carrier, 2, y)

\* C8: shared sampling pattern. For the stride and dimensions of an embedding
\* and a later extraction, encoder and decoder walk the same pixels in the same
\* order: columns 1, 1 + S, 1 + 2S, ... below W, rows 0 .. H - 1 in each;
\* column 0 is never visited and S >= W leaves at most column 1.
C8_SharedSampling ==
    SameStride =>
        LET ev == EmbedVisits(fs.steg.w, fs.steg.h, prov.step)
            dv == ExtractVisits(fs.steg.w, fs.steg.h, last.step)
        IN  /\ ev = dv
            /\ Len(dv) = StegCapacity
            /\ \A k \in 1 .. Len(dv) :
                  /\ dv[k] = KthSampled(k, fs.steg.h, prov.step)
                  /\ dv[k][1] # 0
                  /\ dv[k][1] < fs.steg.w
                  /\ prov.step >= fs.steg.w => dv[k][1] = 1

C8_Witness ==
    /\ SameStride
    /\ prov.step = 2
    /\ fs.steg.w >= 4
    /\ fs.steg.h >= 2
    /\ Len(ExtractVisits(fs.steg.w, fs.steg.h, last.step)) = 2 * fs.steg.h

\* The input artifact the last call needed was missing when it started.
Missing ==
    \/ last.op \in {"lighten", "main_input"} /\ ~last.had.src
    \/ last.op = "embed" /\ ~last.had.lightened
    \/ last.op \in {"extract", "main_output"} /\ ~last.had.steg

\* C9: Not-Found signalling. A call whose required input file is missing fails
\* with Not-Found and writes no artifact; the entry point then exits with status
\* 1 or 2, while it exits with status 3 for any other failure.
C9_NotFoundSignalled ==
    /\ (last.op \in {"lighten", "embed", "extract"} /\ Missing) =>
          last.outcome = "FileNotFoundError" /\ ~last.wrote
    /\ (last.op \in {"main_input", "main_output"} /\ Missing) =>
          last.exit \in {1, 2} /\ ~last.wrote
    /\ (last.op \in {"main_input", "main_output"} /\ ~Missing /\ last.exit # 0) =>
          last.exit = 3

C9_Witness ==
    /\ last.op = "main_output"
    /\ Missing
    /\ last.exit = 2
    /\ ~last.wrote

\* C10: exact decode result. Extraction returns exactly floor(C/8) characters
\* for the C sampled pixels of the image it reads; for an embedded text T with
\* 8*|T| <= C, read with the same polarity p and stride, the result is T
\* followed by floor((C - 8*|T|)/8) characters of code 0 (p = 0) or 255 (p = 1),
\* hence T itself only when C - 8*|T| < 8.
C10_ExactDecode ==
    /\ Extracted =>
          Len(last.ret) = Capacity(fs.steg.w, fs.steg.h, last.step) \div 8
    /\ (SameKey /\ 8 * Len(prov.text) <= StegCapacity) =>
          /\ last.ret = prov.text
                 \o Padding((StegCapacity - 8 * Len(prov.text)) \div 8, prov.bit)
          /\ last.ret = prov.text => StegCapacity - 8 * Len(prov.text) < 8

C10_Witness ==
    /\ SameKey
    /\ prov.text # <<>>
    /\ StegCapacity - 8 * Len(prov.text) >= 8
    /\ last.ret = Append(prov.text, PadCode(prov.bit))

====
